---- MODULE Spec2Model ----
(***************************************************************************)
(* State-machine model of the execution core of oanda-trading-bot:         *)
(*   - oanda_bot/backtest.py   run_backtest (position lifecycle)           *)
(*   - oanda_bot/broker.py     place_risk_managed_order (risk sizing)      *)
(*   - main.py                 handle_bar / handle_signal / event loop     *)
(*                                                                         *)
(* Prices are integers.  In the backtest part one unit is an arbitrary     *)
(* price step.  In the broker part one unit is a "point", one tenth of a   *)
(* pip (0.00001 for most pairs, 0.001 for JPY-quoted pairs).  In the live  *)
(* part one unit is 0.00001 for every pair.                                *)
(***************************************************************************)
EXTENDS Integers, Sequences, FiniteSets, TLC

VARIABLES
    \* ---- run_backtest (oanda_bot/backtest.py) ----
    bt_pc,          \* position of the loop: "exit", "entry", "done", "raised"
    ncandles,       \* len(candles)
    params,         \* strategy.params: max_duration, sl_mult, tp_mult
    idx,            \* loop index of enumerate(candles)
    candle,         \* candle of the current iteration: [h, l, c]
    position,       \* open trade or NoPosition
    wins, losses, trades,   \* the trade counters of the statistics
    last_signal,    \* result of the last strategy.next_signal call of this bar
    last_trade,     \* the trade closed on this bar (the EXIT log record), if any
    exited,         \* this bar closed a position
    entered,        \* this bar opened a position
    n_opened,       \* number of positions created so far
    on_scenario,    \* the run so far is the end-to-end scenario of the design
    \* ---- place_risk_managed_order (oanda_bot/broker.py) ----
    TEST_MODE,      \* _TEST_MODE: CI run or no account configured
    br_call,        \* arguments of the call, or NoCall
    br_tie_up,      \* how this call's round() settles a value halfway between two pips
    br_order,       \* what the call did: sizing values and the order sent
    \* ---- handle_bar / handle_signal / event loop (main.py) ----
    lv_pc,          \* "stream": waiting for a bar, "bar": inside handle_bar, "stopped": loop left
    now,            \* time.time(), in seconds
    n_bars,         \* bars yielded by stream_bars so far
    pair_idx,       \* position of handle_bar's loop over ACTIVE_PAIRS (1-based)
    last_equity_fetch, account_equity, peak_equity, drawdown_pct, last_order_ts,
    strategy_instances,     \* the loaded strategy list: number of reloads since start
    lv_event,       \* what the last step did with its pair
    lv_reopt,       \* the equity refresh and re-optimization of the last step
    lv_order,       \* the order the last step passed to the broker, if any
    lv_track,       \* whether this run of the model keeps the book of open positions
    lv_open,        \* the pairs holding a position opened by an order and not closed since
    max_equity,     \* the largest account_equity the engine has held so far
    \* ---- main / select_strategy_ucb (oanda_bot/meta_optimize.py) ----
    mo_pc,          \* "calibrate", "rounds", "done"; "select", "selected" for one call
    arms,           \* strategies: per arm [pull_count, cumulative_pnl]
    rounds,         \* args.rounds
    cal_idx,        \* position of the calibration loop (1-based)
    round_i,        \* i of the optimization loop
    total_pulls,    \* total_pulls of main, or the argument of one call
    chosen,         \* index of the arm select_strategy_ucb returned last, 0 for none
    winners,        \* indices of the arms written to live_config.json
    n_selected,     \* per arm, the rounds that selected it
    last_eval,      \* the evaluation of the last step: arm, returned pnl, arms before
    mo_scenario,    \* the run is the two-arm convergence scenario of the design
    n_calibrated,   \* per arm, the calibration runs made on it
    live_config,    \* content of live_config.json, by key
    loaded,         \* the arms the load_strategies() after the run returned
    \* ---- price stream (oanda_bot/data/core.py stream_bars) ----
    st_pc,          \* "off", "subscribe" (top of the while loop), "streaming"
    retry_count,    \* stream_bars' retry counter
    st_idle,        \* seconds since last_data_time
    st_window,      \* seconds since bucket_start, counted up to SECONDS
    bucket,         \* the PRICE ticks of the open bucket, in arrival order
    st_ticks,       \* PRICE messages received so far; the next one gets id st_ticks + 1
    st_bars,        \* the bars yielded so far, in order
    st_dropped,     \* ids of the ticks whose bucket was abandoned unfinished
    st_fails,       \* errors caught since the last yielded bar
    st_slept,       \* seconds slept by the last step
    st_event,       \* what the last step was
    st_setup,       \* what stream_bars was started with: "ok", "empty_pairs", "no_credentials"
    \* ---- configuration watcher (config_manager.py ConfigManager) ----
    cm_file,        \* live_config.json: "absent", "invalid" (not JSON) or its parsed content
    cm_mtime,       \* st_mtime of the file when it is there
    last_mtime,     \* self._last_mtime
    last_cfg,       \* self._last_cfg
    cm_seen,        \* the contents on_update was called with, in order
    cm_called,      \* the last poll called on_update
    cm_event,       \* what the last step was
    \* ---- run_backtest run twice on recorded data (oanda_bot/backtest.py) ----
    rp_pc,          \* "off", "run", "done"
    rp_run,         \* 1 or 2: which of the two runs is under way
    rp_idx,         \* idx of the run under way
    rp_position,    \* position of the run under way
    rp_trades,      \* per run, the trades closed so far, in order
    rp_stats,       \* per run, wins, losses, trades and total_pnl
    rp_candles,     \* the candle list handed to both runs
    rp_plan,        \* per idx, the signal the strategy's rule gives on the bars up to idx
    rp_strategy,    \* "bars_only" or "session_filter"
    rp_hours,       \* per run, the UTC hour of the wall clock while it runs
    rp_params       \* strategy.params of both fresh instances

bt_vars == <<bt_pc, ncandles, params, idx, candle, position, wins, losses,
             trades, last_signal, last_trade, exited, entered, n_opened,
             on_scenario>>

br_vars == <<TEST_MODE, br_call, br_tie_up, br_order>>

lv_vars == <<lv_pc, now, n_bars, pair_idx, last_equity_fetch, account_equity,
             peak_equity, drawdown_pct, last_order_ts, strategy_instances,
             lv_event, lv_reopt, lv_order, lv_track, lv_open, max_equity>>

mo_vars == <<mo_pc, arms, rounds, cal_idx, round_i, total_pulls, chosen, winners,
             n_selected, last_eval, mo_scenario, n_calibrated, live_config, loaded>>

st_vars == <<st_pc, retry_count, st_idle, st_window, bucket, st_ticks, st_bars,
             st_dropped, st_fails, st_slept, st_event, st_setup>>

cm_vars == <<cm_file, cm_mtime, last_mtime, last_cfg, cm_seen, cm_called, cm_event>>

rp_vars == <<rp_pc, rp_run, rp_idx, rp_position, rp_trades, rp_stats, rp_candles,
             rp_plan, rp_strategy, rp_hours, rp_params>>

vars == <<bt_vars, br_vars, lv_vars, mo_vars, st_vars, cm_vars, rp_vars>>

----------------------------------------------------------------------------
\* Bounds of the model
MaxCandles == 5     \* longest candle list replayed
MaxPrice   == 2     \* grid candles take h, l, c in 0..MaxPrice
MaxAtr     == 1     \* compute_atr results range over 0..MaxAtr
MaxOff     == 10    \* entry prices of sizing calls: BasePrice + 0..MaxOff points
StopSpan   == 16    \* stop prices of sizing calls: entry -StopSpan..+StopSpan points
MaxBars    == 3     \* bars the live engine takes from the stream
MaxArms    == 3     \* most arms of a bandit run
MaxRounds  == 2     \* most rounds of a bandit run outside the convergence scenario
MaxTrades  == 1     \* most closed trades of one backtest of the optimizer
MaxPulls   == 2     \* pull_count of an arm handed to select_strategy_ucb alone
MaxTotalPulls == 3  \* total_pulls handed to select_strategy_ucb alone
MaxTicks   == 4     \* PRICE messages of a stream run
MaxRetries == 6     \* most errors in a row of a stream run
MaxMtime   == 3     \* modification times of live_config.json: 0..MaxMtime
MaxCallbacks == 3   \* most on_update calls of a watcher run
RerunBars  == 3     \* candles of the list a backtest is repeated on

----------------------------------------------------------------------------
\* run_backtest

NoPosition == [side |-> "NONE", entry_price |-> 0, sl |-> 0, tp |-> 0, entry_idx |-> 0]
NoTrade    == [side |-> "NONE", entry_price |-> 0, exit_price |-> 0, entry_idx |-> 0,
               exit_idx |-> 0, reason |-> "NONE", pnl |-> 0, sl |-> 0, tp |-> 0,
               hit_sl |-> FALSE, hit_tp |-> FALSE, hit_time |-> FALSE, close |-> 0]
NoCandle   == [h |-> 0, l |-> 0, c |-> 0]

\* place_risk_managed_order: no take-profit given, no call made, nothing done.
NoTp    == [given |-> FALSE, price |-> 0]
NoCall  == [instrument |-> "NONE", side |-> "NONE", price |-> 0, stop_price |-> 0,
            equity |-> 0, risk_q |-> 0, tp |-> NoTp]
NoOrder == [outcome |-> "none", stop_price |-> 0, tp |-> NoTp, per_unit_risk |-> 0,
            raw_units |-> 0, units |-> 0]

\* Candles of the bounded grid: low <= close <= high.
GridCandles == {[h |-> h, l |-> l, c |-> c] :
                    <<h, l, c>> \in {t \in (0..MaxPrice) \X (0..MaxPrice) \X (0..MaxPrice) :
                                        t[2] <= t[3] /\ t[3] <= t[1]}}

\* Closes of the end-to-end scenario, in steps of 0.0005 above 1.0960:
\* 1.1000, 1.1010, 1.1025, 1.0960, 1.1005; the stop 1.0990 is 6, the target 1.1040 is 16.
ScenarioCloses == <<8, 10, 13, 0, 9>>
ScenarioCandle(i) == [h |-> ScenarioCloses[i + 1], l |-> ScenarioCloses[i + 1],
                      c |-> ScenarioCloses[i + 1]]
ScenarioParams == [max_duration |-> 3, sl_mult |-> 1, tp_mult |-> 4]
ScenarioAtrs == {2}

\* The candles the data may hold at index i: a grid candle, or the candle of
\* the scenario while the run is the scenario so far.
CandlesAt(i, scen) ==
    GridCandles \cup (IF scen /\ i < Len(ScenarioCloses) THEN {ScenarioCandle(i)} ELSE {})

\* The results compute_atr may give: the mean true range of the last candles,
\* 0 when there are too few of them.
AtrAt(scen) == (0..MaxAtr) \cup (IF scen THEN ScenarioAtrs ELSE {})

ParamSets == {[max_duration |-> d, sl_mult |-> 1, tp_mult |-> 1] : d \in {0, 3}} \cup {ScenarioParams}

\* strategy.macd_trends.sl_tp_levels: price -/+ mult * atr.
sl_tp_levels(price, side, atr, p) ==
    IF side = "BUY"
    THEN [sl |-> price - p.sl_mult * atr, tp |-> price + p.tp_mult * atr]
    ELSE [sl |-> price + p.sl_mult * atr, tp |-> price - p.tp_mult * atr]

hit_sl(pos, cdl) == \/ (pos.side = "BUY"  /\ cdl.l <= pos.sl)
                    \/ (pos.side = "SELL" /\ cdl.h >= pos.sl)

hit_tp(pos, cdl) == \/ (pos.side = "BUY"  /\ cdl.h >= pos.tp)
                    \/ (pos.side = "SELL" /\ cdl.l <= pos.tp)

\* max_dur and (idx - entry_idx) >= max_dur
hit_time(pos, i, p) == p.max_duration # 0 /\ (i - pos.entry_idx) >= p.max_duration

exit_price_SLFirst(pos, cdl) ==
    IF hit_sl(pos, cdl) THEN pos.sl
    ELSE IF hit_tp(pos, cdl) THEN pos.tp
    ELSE cdl.c
exit_price(pos, cdl) ==
    IF hit_tp(pos, cdl) THEN pos.tp
    ELSE IF hit_sl(pos, cdl) THEN pos.sl
    ELSE cdl.c

exit_reason(pos, cdl) ==
    IF hit_tp(pos, cdl) THEN "TP"
    ELSE IF hit_sl(pos, cdl) THEN "SL"
    ELSE "TIME"

trade_pnl(pos, px) ==
    IF pos.side = "BUY" THEN px - pos.entry_price ELSE pos.entry_price - px

BTFrozen ==
    /\ bt_pc = "off" /\ ncandles = 0 /\ params = ScenarioParams /\ idx = 0
    /\ candle = NoCandle /\ position = NoPosition
    /\ wins = 0 /\ losses = 0 /\ trades = 0
    /\ last_signal = "NONE" /\ last_trade = NoTrade
    /\ exited = FALSE /\ entered = FALSE /\ n_opened = 0 /\ on_scenario = FALSE

BRFrozen == TEST_MODE = TRUE /\ br_call = NoCall /\ br_tie_up = FALSE /\ br_order = NoOrder

\* The live engine before it is started.
NoLiveOrder == [instrument |-> "NONE", side |-> "NONE", price |-> 0, stop_price |-> 0,
                tp_price |-> 0, equity |-> 0, risk_q |-> 0]
NoDrawdown  == [num |-> 0, den |-> 1]
NoBanditCall == [strategies |-> "NONE", instrument |-> "NONE", granularity |-> "NONE",
                 count |-> 0, rounds |-> 0]
NoReopt     == [refreshed |-> FALSE, outcome |-> "none", bandit |-> NoBanditCall]

LVFrozen ==
    /\ lv_pc = "off" /\ now = 0 /\ n_bars = 0 /\ pair_idx = 0
    /\ last_equity_fetch = 0 /\ account_equity = 0 /\ peak_equity = 0
    /\ drawdown_pct = NoDrawdown /\ last_order_ts = 0
    /\ strategy_instances = 0
    /\ lv_event = "none" /\ lv_reopt = NoReopt /\ lv_order = NoLiveOrder
    /\ lv_track = FALSE /\ lv_open = {} /\ max_equity = 0

\* The optimizer before it is started.
NoEval == [arm |-> 0, pnl |-> 0, before |-> <<>>]

MOFrozen ==
    /\ mo_pc = "off" /\ arms = <<>> /\ rounds = 0 /\ cal_idx = 0 /\ round_i = 0
    /\ total_pulls = 0 /\ chosen = 0 /\ winners = {} /\ n_selected = <<>>
    /\ last_eval = NoEval /\ mo_scenario = FALSE
    /\ n_calibrated = <<>> /\ live_config = [enabled |-> {}] /\ loaded = {}

\* The price stream before it is started.
STFrozen ==
    /\ st_pc = "off" /\ retry_count = 0 /\ st_idle = 0 /\ st_window = 0
    /\ bucket = <<>> /\ st_ticks = 0 /\ st_bars = <<>> /\ st_dropped = {}
    /\ st_fails = 0 /\ st_slept = 0 /\ st_event = "none" /\ st_setup = "ok"

\* The configuration watcher before it is started.
NoMtime == 0 - 1
CMFrozen ==
    /\ cm_file = "absent" /\ cm_mtime = 0 /\ last_mtime = NoMtime /\ last_cfg = "None"
    /\ cm_seen = <<>> /\ cm_called = FALSE /\ cm_event = "none"

\* The repeated backtest before it is started.
NoStats == [wins |-> 0, losses |-> 0, trades |-> 0, total_pnl |-> 0]
RPFrozen ==
    /\ rp_pc = "off" /\ rp_run = 1 /\ rp_idx = 0 /\ rp_position = NoPosition
    /\ rp_trades = <<<<>>, <<>>>> /\ rp_stats = <<NoStats, NoStats>>
    /\ rp_candles = <<>> /\ rp_plan = <<>> /\ rp_strategy = "bars_only"
    /\ rp_hours = <<0, 0>> /\ rp_params = ScenarioParams

BTInit ==
    /\ RPFrozen
    /\ CMFrozen
    /\ STFrozen
    /\ BRFrozen
    /\ LVFrozen
    /\ MOFrozen
    /\ bt_pc = "exit"
    /\ ncandles \in {MaxCandles - 1, MaxCandles}
    /\ params \in ParamSets
    /\ idx = 0
    /\ candle = NoCandle
    /\ position = NoPosition
    /\ wins = 0 /\ losses = 0 /\ trades = 0
    /\ last_signal = "NONE"
    /\ last_trade = NoTrade
    /\ exited = FALSE
    /\ entered = FALSE
    /\ n_opened = 0
    /\ on_scenario = (params = ScenarioParams /\ ncandles = Len(ScenarioCloses))

\* Lines 74-118: take the next candle and handle the exit of an open position.
RunBacktestExit ==
    /\ bt_pc = "exit"
    /\ idx < ncandles
    /\ \E cdl \in CandlesAt(idx, on_scenario) :
        /\ candle' = cdl
        /\ on_scenario' = (on_scenario /\ idx < Len(ScenarioCloses) /\ cdl = ScenarioCandle(idx))
        /\ IF position # NoPosition
              /\ (hit_sl(position, cdl) \/ hit_tp(position, cdl) \/ hit_time(position, idx, params))
           THEN LET px  == exit_price(position, cdl)
                    pnl == trade_pnl(position, px)
                IN  /\ last_trade' = [side |-> position.side,
                                      entry_price |-> position.entry_price,
                                      exit_price |-> px,
                                      entry_idx |-> position.entry_idx,
                                      exit_idx |-> idx,
                                      reason |-> exit_reason(position, cdl),
                                      pnl |-> pnl,
                                      sl |-> position.sl, tp |-> position.tp,
                                      hit_sl |-> hit_sl(position, cdl),
                                      hit_tp |-> hit_tp(position, cdl),
                                      hit_time |-> hit_time(position, idx, params),
                                      close |-> cdl.c]
                    /\ IF pnl > 0
                       THEN wins' = wins + 1 /\ UNCHANGED losses
                       ELSE losses' = losses + 1 /\ UNCHANGED wins
                    /\ trades' = trades + 1
                    /\ position' = NoPosition
                    /\ exited' = TRUE
           ELSE /\ exited' = FALSE
                /\ last_trade' = NoTrade
                /\ UNCHANGED <<wins, losses, trades, position>>
    /\ bt_pc' = "entry"
    /\ entered' = FALSE
    /\ last_signal' = "NONE"
    /\ UNCHANGED <<ncandles, params, idx, n_opened, br_vars, lv_vars, mo_vars, st_vars, cm_vars, rp_vars>>

\* The guard of line 121.
entry_allowed_NoFlatCheck(pos, i, n) == i < n - 1
entry_allowed(pos, i, n) == pos = NoPosition /\ i < n - 1

\* The position dict of lines 126-132.
open_position_NextIdx(signal, price, lv, i) ==
    [side |-> signal, entry_price |-> price, sl |-> lv.sl, tp |-> lv.tp, entry_idx |-> i + 1]
open_position(signal, price, lv, i) ==
    [side |-> signal, entry_price |-> price, sl |-> lv.sl, tp |-> lv.tp, entry_idx |-> i]

\* Lines 120-136: look for a new entry signal, then go to the next candle.
RunBacktestEntry ==
    /\ bt_pc = "entry"
    /\ IF entry_allowed(position, idx, ncandles)
       THEN \E signal \in {"NONE", "BUY", "SELL", "RAISE"} :
              /\ last_signal' = signal
              /\ CASE signal = "RAISE" ->
                        \* next_signal raised: nothing catches it in run_backtest
                        /\ bt_pc' = "raised"
                        /\ UNCHANGED <<idx, position, entered, n_opened, on_scenario>>
                   [] signal = "NONE" ->
                        /\ bt_pc' = "exit"
                        /\ idx' = idx + 1
                        /\ on_scenario' = (on_scenario /\ idx # 0)
                        /\ UNCHANGED <<position, entered, n_opened>>
                   [] OTHER ->
                        \E atr \in AtrAt(on_scenario) :
                          LET lv == sl_tp_levels(candle.c, signal, atr, params)
                          IN  /\ position' = open_position(signal, candle.c, lv, idx)
                              /\ entered' = TRUE
                              /\ n_opened' = n_opened + 1
                              /\ on_scenario' = (on_scenario /\ idx = 0 /\ signal = "BUY"
                                                    /\ atr \in ScenarioAtrs)
                              /\ bt_pc' = "exit"
                              /\ idx' = idx + 1
       ELSE /\ bt_pc' = "exit"
            /\ idx' = idx + 1
            /\ UNCHANGED <<last_signal, position, entered, n_opened, on_scenario>>
    /\ UNCHANGED <<ncandles, params, candle, wins, losses, trades, last_trade, exited, br_vars, lv_vars, mo_vars, st_vars, cm_vars, rp_vars>>

\* Lines 138-168: the loop is over; the statistics are returned.
RunBacktestReturn ==
    /\ bt_pc = "exit"
    /\ idx = ncandles
    /\ bt_pc' = "done"
    /\ UNCHANGED <<ncandles, params, idx, candle, position, wins, losses, trades,
                   last_signal, last_trade, exited, entered, n_opened, on_scenario, br_vars, lv_vars, mo_vars, st_vars, cm_vars, rp_vars>>

BTNext == RunBacktestExit \/ RunBacktestEntry \/ RunBacktestReturn

SpecBacktest == BTInit /\ [][BTNext]_vars

----------------------------------------------------------------------------
\* place_risk_managed_order

MAX_UNITS == 1000

\* _pip_size, in points: one pip is ten points for either kind of instrument
\* (0.0001 = 10 x 0.00001, and 0.01 = 10 x 0.001 for JPY-quoted pairs).
PipPoints == 10
\* Points in one unit of price: 100000 for 0.00001, 1000 for 0.001.
PointsPerUnit(instrument) == IF instrument = "USD_JPY" THEN 1000 ELSE 100000
\* Entry prices are BasePrice + 0..MaxOff; BasePrice is a whole number of pips.
BasePrice == 10 * PipPoints

\* round(x, decimals) with decimals = int(round(-log10(pip))): the nearest
\* whole pip.  A value halfway between two pips goes where its binary
\* floating-point value lies, up or down: tie_up.
round_to_decimals(x, tie_up) ==
    LET r == x % PipPoints
    IN  IF r * 2 < PipPoints THEN x - r
        ELSE IF r * 2 > PipPoints THEN x - r + PipPoints
        ELSE IF tie_up THEN x - r + PipPoints ELSE x - r

\* Lines 86-91: a stop equal to the entry is moved one pip away.
nudge_stop(side, price, stop_price) ==
    IF stop_price = price
    THEN (IF side = "BUY" THEN price - PipPoints ELSE price + PipPoints)
    ELSE stop_price

\* int(a / b) for b > 0: truncation towards zero.
TruncDiv(a, b) == IF a >= 0 THEN a \div b ELSE -((-a) \div b)

\* Lines 97-99: units = int(equity * risk_pct / per_unit_risk).  risk_pct is
\* risk_q quarters of a percent (risk_q / 400), per_unit_risk is
\* dist / PointsPerUnit, so the quotient is
\* equity * risk_q * (PointsPerUnit / 200) / (2 * dist).
raw_units(instrument, equity, risk_q, dist) ==
    TruncDiv(equity * risk_q * (PointsPerUnit(instrument) \div 200), 2 * dist)

\* Lines 100-102.
clamp_units_NoCap(u) == u
clamp_units(u) == IF u > MAX_UNITS THEN MAX_UNITS ELSE u

\* Lines 117-118.
signed_units(side, u) == IF side = "SELL" THEN -u ELSE u

Calls ==
    {[instrument |-> i, side |-> sd, price |-> BasePrice + o, stop_price |-> BasePrice + o + d,
      equity |-> e, risk_q |-> r, tp |-> t] :
        i \in {"EUR_USD", "USD_JPY"}, sd \in {"BUY", "SELL"}, o \in 0..MaxOff,
        d \in (0 - StopSpan)..StopSpan, e \in {0 - 10, 0, 10, 1000}, r \in {0, 1, 2, 4},
        t \in {NoTp, [given |-> TRUE, price |-> BasePrice + 23]}}

BRInit ==
    /\ RPFrozen
    /\ CMFrozen
    /\ STFrozen
    /\ BTFrozen
    /\ LVFrozen
    /\ MOFrozen
    /\ TEST_MODE \in BOOLEAN
    /\ br_call \in Calls
    /\ br_tie_up \in BOOLEAN
    /\ br_order = NoOrder

\* Lines 69-132, one whole call.
PlaceRiskManagedOrder ==
    /\ br_order = NoOrder
    /\ LET c == br_call IN
       IF TEST_MODE
       THEN br_order' = [NoOrder EXCEPT !.outcome = "simulated"]
       ELSE LET stop == round_to_decimals(nudge_stop(c.side, c.price, c.stop_price), br_tie_up)
                tp   == IF c.tp.given
                        THEN [given |-> TRUE, price |-> round_to_decimals(c.tp.price, br_tie_up)]
                        ELSE NoTp
                dist == IF c.price >= stop THEN c.price - stop ELSE stop - c.price
            IN  IF dist = 0
                THEN \* risk_dollar / per_unit_risk raises ZeroDivisionError
                     br_order' = [outcome |-> "ZeroDivisionError", stop_price |-> stop,
                                  tp |-> tp, per_unit_risk |-> dist,
                                  raw_units |-> 0, units |-> 0]
                ELSE LET u == raw_units(c.instrument, c.equity, c.risk_q, dist)
                     IN  br_order' = [outcome |-> "order", stop_price |-> stop,
                                      tp |-> tp, per_unit_risk |-> dist,
                                      raw_units |-> u,
                                      units |-> signed_units(c.side, clamp_units(u))]
    /\ UNCHANGED <<TEST_MODE, br_call, br_tie_up, bt_vars, lv_vars, mo_vars, st_vars, cm_vars, rp_vars>>

BRNext == PlaceRiskManagedOrder

SpecBroker == BRInit /\ [][BRNext]_vars

----------------------------------------------------------------------------
\* Live engine: main.py handle_bar, handle_signal and the event loop.
\* Prices are in points of 0.00001; money is in whole account units; the
\* risk fraction is in quarters of a percent (risk_q = 4 is risk_frac 0.01).

BAR_SECONDS == 2
EQUITY_REFRESH_SECONDS == 30
BANDIT_DRAWDOWN_THRESHOLD == 5      \* percent
SECOND_DRAWDOWN_THRESHOLD == 10     \* percent
BASE_RISK_Q == 4                    \* risk_frac = 0.01
ATR_POINTS == 50                    \* atr = 0.0005
BEST_SL_MULT_HALVES == 3            \* BEST_SL_MULT = 1.5
BEST_TP_MULT_HALVES == 4            \* BEST_TP_MULT = 2.0

ACTIVE_PAIRS == <<"EUR_USD", "USD_JPY">>

\* bar_close.get(pair): a mid price of the bar, or None.
NoPrice == 0
BarPrices(pair) == IF pair = "USD_JPY" THEN {15012000, 15012300} ELSE {110000, 110003}

\* summary["account"]["NAV"] of an equity fetch; FetchFailed when the request raises.
FetchFailed == 0
EquityVals == {880, 940, 950, 1100}

\* round(x, prec) and f"{x:.{prec}f}" on a grid of `step` points.  The prices
\* of BarPrices never put a level halfway between two grid values.
round_to_step(x, step) ==
    LET r == x % step IN IF 2 * r >= step THEN x - r + step ELSE x - r

\* strategy/utils.py sl_tp_levels as called by handle_signal: ATR multiples,
\* rounded to 2 dp when entry_price >= 20 and to 5 dp otherwise, and nudged
\* by a pip (0.01 or 0.0001) when a rounded level equals the entry.
utils_sl_tp_levels(entry_price, direction) ==
    LET sl_dist == (BEST_SL_MULT_HALVES * ATR_POINTS) \div 2
        tp_dist == (BEST_TP_MULT_HALVES * ATR_POINTS) \div 2
        jpy     == entry_price >= 2000000
        step    == IF jpy THEN 1000 ELSE 1
        pip     == IF jpy THEN 1000 ELSE 10
        sl_r    == round_to_step(IF direction = "BUY" THEN entry_price - sl_dist
                                 ELSE entry_price + sl_dist, step)
        tp_r    == round_to_step(IF direction = "BUY" THEN entry_price + tp_dist
                                 ELSE entry_price - tp_dist, step)
    IN  [sl |-> IF sl_r # entry_price THEN sl_r
                ELSE IF direction = "BUY" THEN entry_price - pip ELSE entry_price + pip,
         tp |-> IF tp_r # entry_price THEN tp_r
                ELSE IF direction = "BUY" THEN entry_price + pip ELSE entry_price - pip]

\* main.round_price: PRECISION[instrument] decimals, 5 when not listed.
round_price(instrument, x) ==
    round_to_step(x, IF instrument = "USD_JPY" THEN 1000 ELSE 1)

\* drawdown_pct > pct / 100, with drawdown_pct kept as the fraction num / den.
drawdown_exceeds_AtOrAbove(dd, pct) == 100 * dd.num >= pct * dd.den
drawdown_exceeds(dd, pct) == 100 * dd.num > pct * dd.den

\* Lines 380-381: the drawdown of a refresh, from the equity held before its fetch.
refresh_peak(peak, equity) == IF equity > peak THEN equity ELSE peak
refresh_drawdown(peak, equity) ==
    [num |-> refresh_peak(peak, equity) - equity, den |-> refresh_peak(peak, equity)]

\* Lines 408-415: base risk, halved above 5% drawdown and again above 10%.
risk_frac(dd) ==
    LET r1 == IF drawdown_exceeds(dd, BANDIT_DRAWDOWN_THRESHOLD)
              THEN BASE_RISK_Q \div 2 ELSE BASE_RISK_Q
    IN  IF drawdown_exceeds(dd, SECOND_DRAWDOWN_THRESHOLD) THEN r1 \div 2 ELSE r1

\* Lines 387-397: the re-optimization ends normally or in the first of its
\* four calls that raises.
BANDIT_ROUNDS == 50
ReoptOutcomes == {"ok", "get_enabled_strategies_raised", "get_candles_raised",
                  "run_meta_bandit_raised", "load_strategies_raised"}

\* Lines 388-394: run_meta_bandit is called once the two calls before it returned.
bandit_reached(outcome) ==
    outcome \in {"ok", "run_meta_bandit_raised", "load_strategies_raised"}
bandit_call(pair) ==
    [strategies |-> "enabled", instrument |-> pair, granularity |-> "H1",
     count |-> 2000, rounds |-> BANDIT_ROUNDS]

\* Line 395: strategy_instances[:] = load_strategies() is reached and assigns
\* only when nothing before it raised.
reloaded_instances_Always(current, outcome) == current + 1
reloaded_instances(current, outcome) ==
    IF outcome = "ok" THEN current + 1 ELSE current

live_start ==
    /\ RPFrozen
    /\ CMFrozen
    /\ STFrozen
    /\ BTFrozen
    /\ BRFrozen
    /\ MOFrozen
    /\ lv_pc = "stream"
    /\ now = EQUITY_REFRESH_SECONDS
    /\ n_bars = 0
    /\ pair_idx = 0
    /\ last_equity_fetch = 0
    /\ account_equity = 1000
    /\ peak_equity = 1000
    /\ drawdown_pct = NoDrawdown
    /\ last_order_ts = 0
    /\ strategy_instances = 0
    /\ lv_event = "none" /\ lv_reopt = NoReopt /\ lv_order = NoLiveOrder
    /\ lv_open = {} /\ max_equity = 1000

\* The live engine as it starts; the book of open positions is not kept.
LVInit == live_start /\ lv_track = FALSE

\* The same start, with the broker's open positions followed pair by pair.
PositionsInit == live_start /\ lv_track = TRUE

\* Lines 542-543: stream_bars yields the next bar, at least BAR_SECONDS after
\* the previous one was handled, and handle_bar starts on it.  Meanwhile the
\* broker may have closed positions on their stop or target.
StreamBar ==
    /\ lv_pc = "stream"
    /\ n_bars < MaxBars
    /\ \E dt \in {BAR_SECONDS, EQUITY_REFRESH_SECONDS} : now' = now + dt
    /\ n_bars' = n_bars + 1
    /\ lv_pc' = "bar"
    /\ pair_idx' = 1
    /\ lv_event' = "bar" /\ lv_reopt' = NoReopt /\ lv_order' = NoLiveOrder
    /\ \E closed \in SUBSET lv_open : lv_open' = lv_open \ closed
    /\ UNCHANGED <<last_equity_fetch, account_equity, peak_equity, drawdown_pct,
                   last_order_ts, strategy_instances, max_equity, lv_track, bt_vars, br_vars, mo_vars, st_vars, cm_vars, rp_vars>>

\* handle_bar lines 466-487 for one pair, with the handle_signal call (lines
\* 344-449) it ends in.  An exception that leaves handle_bar reaches the
\* event loop's `except Exception` (lines 553-557), which breaks out of it.
HandlePair ==
    /\ lv_pc = "bar"
    /\ LET pair == ACTIVE_PAIRS[pair_idx]
           last == pair_idx = Len(ACTIVE_PAIRS)
           Continue(event) ==
               /\ lv_event' = event /\ lv_reopt' = NoReopt /\ lv_order' = NoLiveOrder
               /\ lv_pc' = IF last THEN "stream" ELSE "bar"
               /\ pair_idx' = IF last THEN 0 ELSE pair_idx + 1
               /\ UNCHANGED <<now, last_equity_fetch, account_equity, peak_equity,
                              drawdown_pct, last_order_ts, strategy_instances,
                              lv_open, max_equity>>
       IN  \E price \in BarPrices(pair) \cup {NoPrice},
              signal \in {"NONE", "BUY", "SELL", "RAISE"} :
            IF price = NoPrice THEN Continue("no_price")
            ELSE IF signal = "RAISE" THEN
                \* strat.next_signal raises: nothing in handle_bar catches it
                /\ lv_event' = "strategy_raised" /\ lv_pc' = "stopped"
                /\ lv_reopt' = NoReopt /\ lv_order' = NoLiveOrder
                /\ UNCHANGED <<now, pair_idx, last_equity_fetch, account_equity,
                               peak_equity, drawdown_pct, last_order_ts,
                               strategy_instances, lv_open, max_equity>>
            ELSE IF signal = "NONE" THEN Continue("no_signal")
            ELSE IF now - last_order_ts < BAR_SECONDS THEN Continue("rate_limited")
            ELSE
                LET lv == utils_sl_tp_levels(price, signal)
                    sl == round_price(pair, lv.sl)
                    tp == round_price(pair, lv.tp)
                IN  IF sl = price THEN Continue("sl_equals_entry")
                    ELSE
                    LET refresh == now - last_equity_fetch >= EQUITY_REFRESH_SECONDS
                        dd      == IF refresh
                                   THEN refresh_drawdown(peak_equity, account_equity)
                                   ELSE drawdown_pct
                        reopt   == refresh /\ drawdown_exceeds(dd, BANDIT_DRAWDOWN_THRESHOLD)
                    IN  \E nav \in IF refresh THEN EquityVals \cup {FetchFailed}
                                    ELSE {FetchFailed},
                           outcome \in IF reopt THEN ReoptOutcomes ELSE {"none"},
                           order_ok \in BOOLEAN,
                           d \in {0, BAR_SECONDS} :
                        LET equity == IF nav # FetchFailed THEN nav ELSE account_equity
                        IN  /\ last_equity_fetch' = IF refresh THEN now ELSE last_equity_fetch
                            /\ peak_equity' = IF refresh
                                              THEN refresh_peak(peak_equity, account_equity)
                                              ELSE peak_equity
                            /\ drawdown_pct' = dd
                            /\ lv_reopt' = [refreshed |-> refresh,
                                            outcome |-> outcome,
                                            bandit |-> IF bandit_reached(outcome)
                                                       THEN bandit_call(pair)
                                                       ELSE NoBanditCall]
                            /\ strategy_instances' =
                                   IF reopt THEN reloaded_instances(strategy_instances, outcome)
                                   ELSE strategy_instances
                            /\ account_equity' = equity
                            /\ max_equity' = IF equity > max_equity THEN equity
                                             ELSE max_equity
                            /\ lv_order' = [instrument |-> pair, side |-> signal,
                                            price |-> price, stop_price |-> sl,
                                            tp_price |-> tp, equity |-> equity,
                                            risk_q |-> risk_frac(dd)]
                            /\ IF order_ok
                               THEN /\ lv_event' = "ordered"
                                    /\ lv_open' = IF lv_track THEN lv_open \cup {pair}
                                                  ELSE lv_open
                                    /\ now' = now + d
                                    /\ last_order_ts' = now + d
                                    /\ lv_pc' = IF last THEN "stream" ELSE "bar"
                                    /\ pair_idx' = IF last THEN 0 ELSE pair_idx + 1
                               ELSE \* the broker request raises
                                    /\ lv_event' = "order_raised"
                                    /\ lv_pc' = "stopped"
                                    /\ UNCHANGED <<now, pair_idx, last_order_ts, lv_open>>
    /\ UNCHANGED <<n_bars, lv_track, bt_vars, br_vars, mo_vars, st_vars, cm_vars, rp_vars>>

LVNext == StreamBar \/ HandlePair

SpecLive == LVInit /\ [][LVNext]_vars

SpecPositions == PositionsInit /\ [][LVNext]_vars

----------------------------------------------------------------------------
\* Bandit optimizer: oanda_bot/meta_optimize.py main (= run_meta_bandit) and
\* select_strategy_ucb, with the Backtester of oanda_bot/backtest.py.
\* A PnL is an integer amount; a score is kept in thousandths.

\* The closed block of one backtest, as their PnLs in order.
TradePnls == {0 - 1, 2}
Blocks == UNION {[1..k -> TradePnls] : k \in 0..MaxTrades}

\* The convergence scenario: arm 1 returns +10 on every pull, arm 2 returns -5.
ScenarioBlock(i) == IF i = 1 THEN <<10>> ELSE <<0 - 5>>
BlocksFor(scen, i) == IF scen THEN {ScenarioBlock(i)} ELSE Blocks

\* The cumulative PnLs of the arms handed to select_strategy_ucb on its own.
UcbPnls == {0 - 2, 0, 1}

RECURSIVE SumSeq(_)
SumSeq(s) == IF s = <<>> THEN 0 ELSE Head(s) + SumSeq(Tail(s))

\* strategy/base.py lines 77-78.
update_trade_result(arm, pnl) ==
    [pull_count |-> arm.pull_count + 1, cumulative_pnl |-> arm.cumulative_pnl + pnl]

\* backtest.py line 117: run_backtest reports every closed trade to the strategy.
RECURSIVE run_backtest_updates(_, _)
run_backtest_updates(arm, block) ==
    IF block = <<>> THEN arm
    ELSE run_backtest_updates(update_trade_result(arm, Head(block)), Tail(block))

\* backtest.py lines 142 and 232-243: Backtester.run returns total_pnl.
Backtester_run(block) == SumSeq(block)

\* meta_optimize.py lines 112-115 and 123-125: backtest the arm, then report
\* the returned PnL to it.
evaluate(arm, block) ==
    update_trade_result(run_backtest_updates(arm, block), Backtester_run(block))

\* Line 117: sum(strat.pull_count for strat in strategies).
RECURSIVE SumPulls(_)
SumPulls(strategies) ==
    IF strategies = <<>> THEN 0
    ELSE Head(strategies).pull_count + SumPulls(Tail(strategies))

\* math.log(t) in thousandths, t = 1..64.
Milli == 1000
LnMilli ==
    <<0, 693, 1099, 1386, 1609, 1792, 1946, 2079, 2197, 2303, 2398, 2485, 2565,
      2639, 2708, 2773, 2833, 2890, 2944, 2996, 3045, 3091, 3135, 3178, 3219,
      3258, 3296, 3332, 3367, 3401, 3434, 3466, 3497, 3526, 3555, 3584, 3611,
      3638, 3664, 3689, 3714, 3738, 3761, 3784, 3807, 3829, 3850, 3871, 3892,
      3912, 3932, 3951, 3970, 3989, 4007, 4025, 4043, 4060, 4078, 4094, 4111,
      4127, 4143, 4159>>

\* math.sqrt on integers: the largest r with r * r <= x.
RECURSIVE isqrt_between(_, _, _)
isqrt_between(x, lo, hi) ==
    IF lo = hi THEN lo
    ELSE LET mid == (lo + hi + 1) \div 2
         IN  IF mid * mid <= x THEN isqrt_between(x, mid, hi)
             ELSE isqrt_between(x, lo, mid - 1)
isqrt(x) == isqrt_between(x, 0, 4096)

\* Lines 87-89: average + bonus of a pulled arm, in thousandths.
ucb_score_LowestAverage(arm, t) ==
    isqrt((2 * LnMilli[t] * Milli) \div arm.pull_count)
    - (Milli * arm.cumulative_pnl) \div arm.pull_count
ucb_score(arm, t) ==
    (Milli * arm.cumulative_pnl) \div arm.pull_count
    + isqrt((2 * LnMilli[t] * Milli) \div arm.pull_count)

\* Lines 90-92: arm j is kept as best against arm i.  With equal pull counts
\* the bonuses are the same number and the cumulative PnLs decide, the earlier
\* arm on a tie (`score > best_score` is strict).  With different pull counts
\* the scores decide; scores closer than ScoreTol thousandths are not told
\* apart by this arithmetic and either arm may be kept.
ScoreTol == 3
kept_against(strategies, t, j, i) ==
    IF strategies[j].pull_count = strategies[i].pull_count
    THEN \/ strategies[j].cumulative_pnl > strategies[i].cumulative_pnl
         \/ strategies[j].cumulative_pnl = strategies[i].cumulative_pnl /\ j < i
    ELSE ucb_score(strategies[j], t) > ucb_score(strategies[i], t) + ScoreTol

\* Lines 72-93: the indices select_strategy_ucb can return.
first_unpulled_Last(unpulled) == CHOOSE i \in unpulled : \A j \in unpulled : j <= i
first_unpulled(unpulled) == CHOOSE i \in unpulled : \A j \in unpulled : i <= j
select_strategy_ucb(strategies, t) ==
    LET I == 1..Len(strategies)
        unpulled == {i \in I : strategies[i].pull_count = 0}
    IN  IF unpulled # {} THEN {first_unpulled(unpulled)}
        ELSE {i \in I : \A j \in I \ {i} : ~kept_against(strategies, t, j, i)}

\* Lines 134-138: the arms whose cumulative_pnl equals the maximum.
promoted_winners_First(strategies) ==
    {CHOOSE i \in 1..Len(strategies) :
        \A j \in 1..Len(strategies) :
            strategies[j].cumulative_pnl <= strategies[i].cumulative_pnl}
promoted_winners(strategies) ==
    {i \in 1..Len(strategies) :
        \A j \in 1..Len(strategies) :
            strategies[j].cumulative_pnl <= strategies[i].cumulative_pnl}

FreshArms(n) == [i \in 1..n |-> [pull_count |-> 0, cumulative_pnl |-> 0]]

\* main() is started with at least one enabled strategy, each a fresh
\* instance (strategy/base.py lines 40-41), and with --rounds N.
MOInit ==
    /\ RPFrozen
    /\ CMFrozen
    /\ STFrozen
    /\ BTFrozen
    /\ BRFrozen
    /\ LVFrozen
    /\ mo_scenario \in BOOLEAN
    /\ mo_pc = "calibrate"
    /\ \E n \in IF mo_scenario THEN {2} ELSE 1..MaxArms :
            /\ arms = FreshArms(n)
            /\ n_selected = [i \in 1..n |-> 0]
            /\ n_calibrated = [i \in 1..n |-> 0]
            /\ live_config = [enabled |-> 1..n]
    /\ loaded = {}
    /\ rounds \in IF mo_scenario THEN {BANDIT_ROUNDS} ELSE 0..MaxRounds
    /\ cal_idx = 1
    /\ round_i = 0
    /\ total_pulls = 0
    /\ chosen = 0
    /\ winners = {}
    /\ last_eval = NoEval

\* Lines 111-117: calibrate the next arm; after the last one, total_pulls.
Calibrate ==
    /\ mo_pc = "calibrate"
    /\ \E block \in BlocksFor(mo_scenario, cal_idx) :
        /\ arms' = [arms EXCEPT ![cal_idx] = evaluate(@, block)]
        /\ last_eval' = [arm |-> cal_idx, pnl |-> Backtester_run(block), before |-> arms]
    /\ n_calibrated' = [n_calibrated EXCEPT ![cal_idx] = @ + 1]
    /\ IF cal_idx = Len(arms)
       THEN mo_pc' = "rounds" /\ total_pulls' = SumPulls(arms') /\ UNCHANGED cal_idx
       ELSE cal_idx' = cal_idx + 1 /\ UNCHANGED <<mo_pc, total_pulls>>
    /\ UNCHANGED <<rounds, round_i, chosen, winners, n_selected, mo_scenario,
                   live_config, loaded, bt_vars, br_vars, lv_vars, st_vars, cm_vars, rp_vars>>

\* Lines 120-126: one round of the optimization loop.
Round ==
    /\ mo_pc = "rounds"
    /\ round_i < rounds
    /\ \E c \in select_strategy_ucb(arms, total_pulls) :
        \E block \in BlocksFor(mo_scenario, c) :
            /\ chosen' = c
            /\ arms' = [arms EXCEPT ![c] = evaluate(@, block)]
            /\ last_eval' = [arm |-> c, pnl |-> Backtester_run(block), before |-> arms]
            /\ n_selected' = [n_selected EXCEPT ![c] = @ + 1]
    /\ total_pulls' = total_pulls + 1
    /\ round_i' = round_i + 1
    /\ UNCHANGED <<mo_pc, rounds, cal_idx, winners, mo_scenario, n_calibrated,
                   live_config, loaded, bt_vars, br_vars, lv_vars, st_vars, cm_vars, rp_vars>>

\* Lines 128-141: after the last round, write the winners to live_config.json.
Report ==
    /\ mo_pc = "rounds"
    /\ round_i = rounds
    /\ winners' = promoted_winners(arms)
    /\ live_config' = [winners |-> promoted_winners(arms)]
    /\ mo_pc' = "done"
    /\ last_eval' = NoEval
    /\ UNCHANGED <<arms, rounds, cal_idx, round_i, total_pulls, chosen, n_selected,
                   mo_scenario, n_calibrated, loaded, bt_vars, br_vars, lv_vars, st_vars, cm_vars, rp_vars>>

\* manager.py lines 28-66: the strategies named under "enabled_strategies",
\* else under "enabled", else none.
manager_load_strategies(cfg) ==
    IF "enabled_strategies" \in DOMAIN cfg THEN cfg.enabled_strategies
    ELSE IF "enabled" \in DOMAIN cfg THEN cfg.enabled
    ELSE {}

\* main.py lines 145-173: every BaseStrategy subclass found in the strategy
\* package; live_config.json is not read.
main_load_strategies(installed) == installed

\* The reload after the run (main.py line 395, or the manager's loader).  The
\* strategy package holds the enabled arms and possibly one more strategy.
Reload ==
    /\ mo_pc = "done"
    /\ \E loader \in {"main", "manager"}, others \in {{}, {Len(arms) + 1}} :
        loaded' = IF loader = "main"
                  THEN main_load_strategies((1..Len(arms)) \cup others)
                  ELSE manager_load_strategies(live_config)
    /\ mo_pc' = "reloaded"
    /\ UNCHANGED <<arms, rounds, cal_idx, round_i, total_pulls, chosen, winners,
                   n_selected, last_eval, mo_scenario, n_calibrated, live_config,
                   bt_vars, br_vars, lv_vars, st_vars, cm_vars, rp_vars>>

MONext == Calibrate \/ Round \/ Report \/ Reload

SpecBandit == MOInit /\ [][MONext]_vars

\* select_strategy_ucb on its own (lines 72-93): one call on a list of arms
\* and a total_pulls.  An arm never pulled has cumulative_pnl 0
\* (strategy/base.py lines 40-41); total_pulls is at least 1, as it is in
\* main() and in the tests (math.log needs a positive argument).
UcbArms ==
    {a \in [pull_count : 0..MaxPulls, cumulative_pnl : UcbPnls] :
        a.pull_count = 0 => a.cumulative_pnl = 0}

UcbInit ==
    /\ RPFrozen
    /\ CMFrozen
    /\ STFrozen
    /\ BTFrozen
    /\ BRFrozen
    /\ LVFrozen
    /\ mo_pc = "select"
    /\ arms \in UNION {[1..n -> UcbArms] : n \in 1..MaxArms}
    /\ total_pulls \in 1..MaxTotalPulls
    /\ chosen = 0
    /\ rounds = 0 /\ cal_idx = 0 /\ round_i = 0 /\ winners = {}
    /\ n_selected = <<>> /\ last_eval = NoEval /\ mo_scenario = FALSE
    /\ n_calibrated = <<>> /\ live_config = [enabled |-> {}] /\ loaded = {}

SelectStrategyUcb ==
    /\ mo_pc = "select"
    /\ chosen' \in select_strategy_ucb(arms, total_pulls)
    /\ mo_pc' = "selected"
    /\ UNCHANGED <<arms, rounds, cal_idx, round_i, total_pulls, winners, n_selected,
                   last_eval, mo_scenario, n_calibrated, live_config, loaded,
                   bt_vars, br_vars, lv_vars, st_vars, cm_vars, rp_vars>>

UcbNext == SelectStrategyUcb

SpecUcb == UcbInit /\ [][UcbNext]_vars

----------------------------------------------------------------------------
\* Price stream: oanda_bot/data/core.py, stream_bars around _stream_bars_once.
\* Times are whole seconds.  A tick is a PRICE message, named by its arrival
\* number; its mid price is left out, a bar is told by the ticks it closes on.

SECONDS == 5            \* bar length
TIMEOUT_SECONDS == 300  \* timeout_seconds passed by stream_bars
MAX_BACKOFF == 60       \* max_backoff
STREAM_PAIRS == {"EUR_USD", "USD_JPY"}

\* Line 211: backoff = min(2 ** retry_count, max_backoff).
backoff_Uncapped(k) == 2 ^ k
backoff(k) == IF 2 ^ k < MAX_BACKOFF THEN 2 ^ k ELSE MAX_BACKOFF

TickIds(b) == {b[i].id : i \in 1..Len(b)}

\* Line 177: {p: prices[-1] for p, prices in bucket.items() if prices}.
bar_close(b) ==
    [p \in {b[i].instr : i \in 1..Len(b)} |->
        LET last == CHOOSE i \in 1..Len(b) :
                        /\ b[i].instr = p
                        /\ \A j \in 1..Len(b) : b[j].instr = p => j <= i
        IN  b[last].id]

\* Lines 179 and 128: the bucket after a bar was yielded, and the bucket of a
\* new subscription.
bucket_after_yield_Kept(b) == b
bucket_after_yield(b) == <<>>

\* Line 134: the check made when a message arrives.
timed_out(idle) == idle > TIMEOUT_SECONDS

\* Lines 120-125: with an empty pairs list _stream_bars_once raises
\* ValueError, with OANDA_ACCOUNT_ID or OANDA_TOKEN missing _get_account_id or
\* _get_token raises RuntimeError, on every attempt.
StreamSetups == {"ok", "empty_pairs", "no_credentials"}

STInit ==
    /\ RPFrozen
    /\ CMFrozen
    /\ BTFrozen
    /\ BRFrozen
    /\ LVFrozen
    /\ MOFrozen
    /\ st_pc = "subscribe" /\ retry_count = 0 /\ st_idle = 0 /\ st_window = 0
    /\ bucket = <<>> /\ st_ticks = 0 /\ st_bars = <<>> /\ st_dropped = {}
    /\ st_fails = 0 /\ st_slept = 0 /\ st_event = "none"
    /\ st_setup \in StreamSetups

\* Lines 200-205 with 119-130, and 209-219 when the request raises: a
\* subscription attempt.
StSubscribe ==
    /\ st_pc = "subscribe"
    /\ \E connected \in IF st_setup = "ok" THEN BOOLEAN ELSE {FALSE} :
        IF connected
        THEN /\ st_pc' = "streaming"
             /\ bucket' = <<>>
             /\ st_idle' = 0
             /\ st_window' = 0
             /\ st_slept' = 0
             /\ st_event' = "connected"
             /\ UNCHANGED <<retry_count, st_fails>>
        ELSE /\ retry_count < MaxRetries
             /\ retry_count' = retry_count + 1
             /\ st_slept' = backoff(retry_count + 1)
             /\ st_fails' = st_fails + 1
             /\ st_event' = "failed"
             /\ UNCHANGED <<st_pc, bucket, st_idle, st_window>>
    /\ UNCHANGED <<st_ticks, st_bars, st_dropped, st_setup,
                   bt_vars, br_vars, lv_vars, mo_vars, cm_vars, rp_vars>>

\* The generator is blocked in `for msg in ...request(stream)` (line 132)
\* while time passes without a message.
StElapse ==
    /\ st_pc = "streaming"
    /\ \E dt \in {SECONDS, TIMEOUT_SECONDS} :
        /\ dt = SECONDS => st_idle \in {0, TIMEOUT_SECONDS}
        /\ st_idle + dt <= TIMEOUT_SECONDS + SECONDS
        /\ st_idle' = st_idle + dt
        /\ st_window' = IF st_window + dt < SECONDS THEN st_window + dt ELSE SECONDS
    /\ st_slept' = 0
    /\ st_event' = "elapsed"
    /\ UNCHANGED <<st_pc, retry_count, bucket, st_ticks, st_bars, st_dropped, st_fails, st_setup,
                   bt_vars, br_vars, lv_vars, mo_vars, cm_vars, rp_vars>>

\* Lines 132-180, with 206-207 when a bar is yielded and 209-219 when the
\* timeout check raises: one message arrives.
StMessage ==
    /\ st_pc = "streaming"
    /\ \E type \in {"HEARTBEAT", "PRICE"}, instr \in STREAM_PAIRS :
        IF timed_out(st_idle)
        THEN \* TimeoutError, caught by stream_bars
             /\ retry_count < MaxRetries
             /\ type = "HEARTBEAT" /\ instr = "EUR_USD"
             /\ retry_count' = retry_count + 1
             /\ st_slept' = backoff(retry_count + 1)
             /\ st_fails' = st_fails + 1
             /\ st_pc' = "subscribe"
             /\ st_dropped' = st_dropped \cup TickIds(bucket)
             /\ st_event' = "timeout"
             /\ UNCHANGED <<bucket, st_idle, st_window, st_ticks, st_bars>>
        ELSE IF type # "PRICE"
        THEN /\ instr = "EUR_USD"
             /\ st_idle' = 0
             /\ st_slept' = 0
             /\ st_event' = "heartbeat"
             /\ UNCHANGED <<st_pc, retry_count, bucket, st_window, st_ticks, st_bars,
                            st_dropped, st_fails>>
        ELSE /\ st_ticks < MaxTicks
             /\ st_ticks' = st_ticks + 1
             /\ st_idle' = 0
             /\ st_slept' = 0
             /\ LET filled == Append(bucket, [id |-> st_ticks + 1, instr |-> instr])
                IN  IF st_window >= SECONDS
                    THEN /\ st_bars' = Append(st_bars, [close |-> bar_close(filled),
                                                        window |-> TickIds(filled)])
                         /\ retry_count' = 0
                         /\ st_fails' = 0
                         /\ bucket' = bucket_after_yield(filled)
                         /\ st_window' = 0
                         /\ st_event' = "bar"
                    ELSE /\ bucket' = filled
                         /\ st_event' = "tick"
                         /\ UNCHANGED <<retry_count, st_fails, st_window, st_bars>>
             /\ UNCHANGED <<st_pc, st_dropped>>
    /\ UNCHANGED <<st_setup, bt_vars, br_vars, lv_vars, mo_vars, cm_vars, rp_vars>>

\* Lines 209-219: the request iterator raises (connection lost, malformed
\* message); stream_bars catches it, sleeps and goes round the loop.
StDrop ==
    /\ st_pc = "streaming"
    /\ retry_count < MaxRetries
    /\ retry_count' = retry_count + 1
    /\ st_slept' = backoff(retry_count + 1)
    /\ st_fails' = st_fails + 1
    /\ st_pc' = "subscribe"
    /\ st_dropped' = st_dropped \cup TickIds(bucket)
    /\ st_event' = "dropped"
    /\ UNCHANGED <<bucket, st_idle, st_window, st_ticks, st_bars, st_setup,
                   bt_vars, br_vars, lv_vars, mo_vars, cm_vars, rp_vars>>

\* Lines 200-207: the for loop over _stream_bars_once ends without an
\* exception, so the except clause (lines 209-217) is not entered and
\* retry_count is what it was.
retry_after_end_Counted(count) == count + 1
retry_after_end(count) == count

\* Lines 200-207: the request iterator ends without raising; the for loop
\* ends and `while True` subscribes again at once.
StEnd ==
    /\ st_pc = "streaming"
    /\ st_pc' = "subscribe"
    /\ retry_count' = retry_after_end(retry_count)
    /\ st_dropped' = st_dropped \cup TickIds(bucket)
    /\ st_slept' = 0
    /\ st_event' = "ended"
    /\ UNCHANGED <<bucket, st_idle, st_window, st_ticks, st_bars, st_fails, st_setup,
                   bt_vars, br_vars, lv_vars, mo_vars, cm_vars, rp_vars>>

STNext == StSubscribe \/ StElapse \/ StMessage \/ StDrop \/ StEnd

SpecStream == STInit /\ [][STNext]_vars

\* What stream_bars does by itself it does: it goes round its loop and
\* subscribes again, and time passes.  Whether the feed sends a message,
\* breaks or ends is up to the feed.
SpecStreamFair == SpecStream /\ WF_vars(StSubscribe) /\ WF_vars(StElapse)


----------------------------------------------------------------------------
\* Configuration watcher: config_manager.py, ConfigManager._watch_loop while
\* self._running.  A parsed content is told by a name.

CfgContents == {"A", "B"}

\* Lines 24-34 and 60-66: a started manager; the file is there or not.
CMInit ==
    /\ RPFrozen
    /\ BTFrozen
    /\ BRFrozen
    /\ LVFrozen
    /\ MOFrozen
    /\ STFrozen
    /\ cm_file \in CfgContents \cup {"absent", "invalid"}
    /\ cm_mtime = 0
    /\ last_mtime = NoMtime
    /\ last_cfg = "None"
    /\ cm_seen = <<>>
    /\ cm_called = FALSE
    /\ cm_event = "none"

\* The file is written by somebody: new or same content, and the
\* modification time moves on or stays (a rewrite within the resolution of
\* st_mtime, or a writer that restores the time).
WriteConfig ==
    /\ \E content \in CfgContents \cup {"invalid"}, tick \in {0, 1} :
        /\ cm_mtime + tick <= MaxMtime
        /\ cm_file' = content
        /\ cm_mtime' = cm_mtime + tick
    /\ cm_event' = "written"
    /\ UNCHANGED <<last_mtime, last_cfg, cm_seen, cm_called,
                   bt_vars, br_vars, lv_vars, mo_vars, st_vars, rp_vars>>

\* The file is removed.
DeleteConfig ==
    /\ cm_file # "absent"
    /\ cm_file' = "absent"
    /\ cm_event' = "deleted"
    /\ UNCHANGED <<cm_mtime, last_mtime, last_cfg, cm_seen, cm_called,
                   bt_vars, br_vars, lv_vars, mo_vars, st_vars, rp_vars>>

\* Lines 43-45: CONFIG_PATH.stat().st_mtime, None when the file is missing.
stat_mtime(file, mtime) == IF file = "absent" THEN NoMtime ELSE mtime

\* Line 47: the file is loaded only when its modification time differs.
must_load(mtime, last) == mtime # last

\* Lines 41-58: one pass of the watch loop.
Poll ==
    /\ LET mtime == stat_mtime(cm_file, cm_mtime)
       IN  IF ~must_load(mtime, last_mtime)
           THEN /\ cm_called' = FALSE
                /\ UNCHANGED <<last_mtime, last_cfg, cm_seen>>
           ELSE IF cm_file \in {"absent", "invalid"}
           THEN \* _load raises, caught at line 56
                /\ cm_called' = FALSE
                /\ UNCHANGED <<last_mtime, last_cfg, cm_seen>>
           ELSE IF cm_file = last_cfg
           THEN /\ last_mtime' = mtime
                /\ cm_called' = FALSE
                /\ UNCHANGED <<last_cfg, cm_seen>>
           ELSE /\ Len(cm_seen) < MaxCallbacks
                /\ cm_seen' = Append(cm_seen, cm_file)
                /\ cm_called' = TRUE
                /\ \E on_update_raises \in BOOLEAN :
                    IF on_update_raises
                    THEN UNCHANGED <<last_mtime, last_cfg>>
                    ELSE last_cfg' = cm_file /\ last_mtime' = mtime
    /\ cm_event' = "polled"
    /\ UNCHANGED <<cm_file, cm_mtime, bt_vars, br_vars, lv_vars, mo_vars, st_vars, rp_vars>>

CMNext == WriteConfig \/ DeleteConfig \/ Poll

SpecConfig == CMInit /\ [][CMNext]_vars

----------------------------------------------------------------------------
\* run_backtest run twice, each time with a fresh strategy instance of the
\* same class and params, on one recorded candle list (oanda_bot/backtest.py
\* lines 54-168; the list as get_candles returns it, data/core.py 48-59).

\* Candles with the `complete` flag of the OANDA candle dict.  In a list
\* returned by get_candles only the last candle can be the one in progress.
RerunCandles ==
    {[h |-> 1, l |-> 1, c |-> 1], [h |-> 2, l |-> 1, c |-> 2], [h |-> 1, l |-> 0, c |-> 0]}
with_complete(cdl, flag) == [h |-> cdl.h, l |-> cdl.l, c |-> cdl.c, complete |-> flag]
RerunTapes ==
    {[i \in 1..RerunBars |-> with_complete(t[i], i < RerunBars \/ last_complete)] :
        t \in [1..RerunBars -> RerunCandles], last_complete \in BOOLEAN}

\* The ATR sl_tp_levels computes from the bars is taken as one price step.
RerunAtr == 1

\* UTC hours of the wall clock of a run: one inside, one outside the Asia
\* session.
RerunHours == {3, 12}

\* strategy/zscore_reversion.py lines 64-82: 23:00-08:00 UTC.
is_asia_session(hour) == 23 <= hour \/ hour < 8

\* next_signal of the strategy on the bars up to index i.  A "bars_only"
\* strategy answers from the bars; a "session_filter" strategy first asks
\* datetime.utcnow() (zscore_reversion.py lines 185-187, session_filter
\* defaults to True) and answers None outside the Asia session.
rerun_next_signal(strategy, plan, i, hour) ==
    IF strategy = "session_filter" /\ ~is_asia_session(hour) THEN "NONE"
    ELSE plan[i + 1]

RPInit ==
    /\ BTFrozen
    /\ BRFrozen
    /\ LVFrozen
    /\ MOFrozen
    /\ STFrozen
    /\ CMFrozen
    /\ rp_pc = "run"
    /\ rp_run = 1
    /\ rp_idx = 0
    /\ rp_position = NoPosition
    /\ rp_trades = <<<<>>, <<>>>>
    /\ rp_stats = <<NoStats, NoStats>>
    /\ rp_candles \in RerunTapes
    /\ rp_plan \in [1..RerunBars -> {"NONE", "BUY", "SELL"}]
    /\ rp_strategy \in {"bars_only", "session_filter"}
    /\ rp_hours \in RerunHours \X RerunHours
    /\ rp_params \in ParamSets

\* Lines 74-136: one pass of the for loop of the run under way.
RerunBar ==
    /\ rp_pc = "run"
    /\ rp_idx < Len(rp_candles)
    /\ LET cdl == rp_candles[rp_idx + 1]
           closes == /\ rp_position # NoPosition
                     /\ \/ hit_sl(rp_position, cdl)
                        \/ hit_tp(rp_position, cdl)
                        \/ hit_time(rp_position, rp_idx, rp_params)
           px == exit_price(rp_position, cdl)
           pnl == trade_pnl(rp_position, px)
           trade == [entry_idx |-> rp_position.entry_idx, exit_idx |-> rp_idx,
                     side |-> rp_position.side, exit_price |-> px,
                     reason |-> exit_reason(rp_position, cdl), pnl |-> pnl]
           flat == IF closes THEN NoPosition ELSE rp_position
           signal == rerun_next_signal(rp_strategy, rp_plan, rp_idx, rp_hours[rp_run])
           st == rp_stats[rp_run]
       IN  /\ rp_trades' = IF closes
                           THEN [rp_trades EXCEPT ![rp_run] = Append(@, trade)]
                           ELSE rp_trades
           /\ rp_stats' = IF closes
                          THEN [rp_stats EXCEPT ![rp_run] =
                                    [wins |-> st.wins + (IF pnl > 0 THEN 1 ELSE 0),
                                     losses |-> st.losses + (IF pnl > 0 THEN 0 ELSE 1),
                                     trades |-> st.trades + 1,
                                     total_pnl |-> st.total_pnl + pnl]]
                          ELSE rp_stats
           /\ rp_position' =
                IF entry_allowed(flat, rp_idx, Len(rp_candles)) /\ signal \in {"BUY", "SELL"}
                THEN open_position(signal, cdl.c,
                                   sl_tp_levels(cdl.c, signal, RerunAtr, rp_params), rp_idx)
                ELSE flat
    /\ rp_idx' = rp_idx + 1
    /\ UNCHANGED <<rp_pc, rp_run, rp_candles, rp_plan, rp_strategy, rp_hours, rp_params,
                   bt_vars, br_vars, lv_vars, mo_vars, st_vars, cm_vars>>

\* Lines 138-168: the run returns its statistics; after the first run the
\* second starts from a cold state.
RerunReturn ==
    /\ rp_pc = "run"
    /\ rp_idx = Len(rp_candles)
    /\ IF rp_run = 1
       THEN rp_run' = 2 /\ UNCHANGED rp_pc
       ELSE rp_pc' = "done" /\ UNCHANGED rp_run
    /\ rp_idx' = 0
    /\ rp_position' = NoPosition
    /\ UNCHANGED <<rp_trades, rp_stats, rp_candles, rp_plan, rp_strategy, rp_hours,
                   rp_params, bt_vars, br_vars, lv_vars, mo_vars, st_vars, cm_vars>>

RPNext == RerunBar \/ RerunReturn

SpecRerun == RPInit /\ [][RPNext]_vars

----------------------------------------------------------------------------
\* Properties of place_risk_managed_order

\* C7: in every call the stop distance |entry - stop| that divides the risk
\* amount is strictly positive, so sizing never divides by zero.
C7_StopDistancePositive ==
    (br_order # NoOrder /\ ~TEST_MODE) =>
        (br_order.outcome = "order" /\ br_order.per_unit_risk > 0)

\* C8: called with stop_price equal to the entry price, the stop used for
\* sizing and sent with the order lies exactly one pip from the entry,
\* below it for BUY and above it for SELL, and a finite unit count results.
C8_NudgedStopOnePip ==
    (br_order # NoOrder /\ ~TEST_MODE /\ br_call.stop_price = br_call.price) =>
        /\ br_order.outcome = "order"
        /\ br_order.stop_price = (IF br_call.side = "BUY"
                                  THEN br_call.price - PipPoints
                                  ELSE br_call.price + PipPoints)
        /\ br_order.per_unit_risk = PipPoints

\* C9: for non-negative equity and risk fraction, the unit count submitted
\* never exceeds MAX_UNITS in absolute value, is non-negative for BUY and
\* non-positive for SELL.
C9_UnitsBounded ==
    (br_order.outcome = "order" /\ br_call.equity >= 0 /\ br_call.risk_q >= 0) =>
        /\ br_order.units <= MAX_UNITS
        /\ br_order.units >= 0 - MAX_UNITS
        /\ (br_call.side = "BUY"  => br_order.units >= 0)
        /\ (br_call.side = "SELL" => br_order.units <= 0)

\* Witness of C9: a SELL whose computed size was above the cap, and one
\* whose size was below it.
C9_Witness ==
    /\ br_order.outcome = "order" /\ br_call.side = "SELL" /\ br_call.equity > 0
    /\ br_order.raw_units > MAX_UNITS
    /\ br_order.units = 0 - MAX_UNITS

----------------------------------------------------------------------------
\* Properties of run_backtest

\* The exit conditions of the trade closed on this bar, from the trade's own
\* levels and the candle of this bar.
TradeTouchedSL == \/ (last_trade.side = "BUY"  /\ candle.l <= last_trade.sl)
                  \/ (last_trade.side = "SELL" /\ candle.h >= last_trade.sl)
TradeTouchedTP == \/ (last_trade.side = "BUY"  /\ candle.h >= last_trade.tp)
                  \/ (last_trade.side = "SELL" /\ candle.l <= last_trade.tp)
TradeTimedOut  == /\ params.max_duration > 0
                  /\ last_trade.exit_idx - last_trade.entry_idx >= params.max_duration

\* C1: when the bar that closes a position satisfies both the stop-loss and
\* the take-profit condition, the trade closes with reason SL at the stop-loss
\* price, for LONG and for SHORT.
C1_StopLossHasPriority ==
    (exited /\ TradeTouchedSL /\ TradeTouchedTP)
        => (last_trade.reason = "SL" /\ last_trade.exit_price = last_trade.sl)

\* C2: a bar that closes a position does not open a new one: at most one of
\* the transitions OPEN to FLAT and FLAT to OPEN happens per bar.
C2_OneTransitionPerBar == ~(exited /\ entered)

\* C4: at most one position is open after any prefix of the bars; a position
\* is created only by a BUY or SELL signal evaluated while no position is
\* open, and is removed only by an SL, TP or TIME exit firing.
C4_PositionLifecycle ==
    [][ /\ n_opened' - trades' \in {0, 1}
        /\ (n_opened' - trades' = 1) <=> (position' # NoPosition)
        /\ (position' # position) =>
              \/ /\ position = NoPosition
                 /\ position' # NoPosition
                 /\ last_signal' \in {"BUY", "SELL"}
                 /\ position'.side = last_signal'
                 /\ n_opened' = n_opened + 1
                 /\ trades' = trades
              \/ /\ position # NoPosition
                 /\ position' = NoPosition
                 /\ last_trade'.reason \in {"SL", "TP", "TIME"}
                 /\ (last_trade'.hit_sl \/ last_trade'.hit_tp \/ last_trade'.hit_time)
                 /\ trades' = trades + 1
                 /\ n_opened' = n_opened
        /\ (n_opened' # n_opened \/ trades' # trades) => position' # position
      ]_vars

\* Witness of C4: a second position is open after the first one was closed.
C4_Witness == n_opened = 2 /\ trades = 1 /\ position # NoPosition

\* C5: every closed trade has an exit bar index strictly greater than its
\* entry bar index, and its exit reason is one of TP, SL and TIME.
C5_ExitAfterEntry ==
    (last_trade # NoTrade) =>
        /\ last_trade.exit_idx > last_trade.entry_idx
        /\ last_trade.reason \in {"TP", "SL", "TIME"}

\* Witness of C5: a trade closed on the bar right after its entry bar.
C5_Witness == exited /\ last_trade.exit_idx = last_trade.entry_idx + 1

\* The trade the end-to-end scenario must produce: LONG at 1.1000 (8) on
\* bar 0, closed on bar 3 at the stop 1.0990 (6), PnL -0.0010 (-2).
ScenarioTrade ==
    /\ last_trade.side = "BUY"
    /\ last_trade.entry_price = 8
    /\ last_trade.entry_idx = 0
    /\ last_trade.exit_idx = 3
    /\ last_trade.reason = "SL"
    /\ last_trade.exit_price = 6
    /\ last_trade.pnl = 0 - 2

----------------------------------------------------------------------------
\* Properties of the live engine

\* C3: when a strategy's next_signal raises while a bar is processed, the
\* signal counts as none for that pair and bar and the engine goes on with
\* the remaining pairs and the later bars: the loop is not left.
C3_StrategyFaultIsolated ==
    (lv_event = "strategy_raised") => (lv_pc \in {"bar", "stream"})

\* C10: the risk fraction passed to order sizing is the base fraction at a
\* drawdown of at most 5%, half of it above 5% and up to 10%, a quarter of it
\* above 10%, the drawdown being (peak_equity - account_equity) / peak_equity
\* of the engine's equity state when the order is placed.
C10_RiskFollowsCurrentDrawdown ==
    (lv_order # NoLiveOrder) =>
        LET down == peak_equity - account_equity
        IN  lv_order.risk_q = IF 10 * down > peak_equity THEN 1
                              ELSE IF 20 * down > peak_equity THEN 2
                              ELSE 4

\* C11 as stated: at an equity refresh, run_meta_bandit is invoked (enabled
\* strategies, fetched candles, BANDIT_ROUNDS) and strategy_instances is
\* replaced by the reloaded set if and only if the drawdown is strictly above
\* 5%; at or below 5% the optimizer is not invoked and the list is unchanged.
C11_ReoptimizeIffAboveThreshold ==
    [][lv_reopt'.refreshed =>
          LET above == 100 * drawdown_pct'.num > 5 * drawdown_pct'.den
              invoked == lv_reopt'.bandit # NoBanditCall
              replaced == strategy_instances' # strategy_instances
          IN  /\ (invoked /\ replaced) <=> above
              /\ ~above => (~invoked /\ ~replaced)]_vars

\* C11 amended: at an equity refresh with the drawdown at or below 5% the
\* optimizer is not invoked and strategy_instances is unchanged; with the
\* drawdown strictly above 5% the re-optimization is attempted:
\* run_meta_bandit is invoked (enabled strategies, the candles fetched for the
\* pair, BANDIT_ROUNDS) unless get_enabled_strategies or get_candles raised,
\* and strategy_instances is replaced by the reloaded set exactly when none of
\* the four calls raised.
C11_ReoptimizeAboveThreshold ==
    [][lv_reopt'.refreshed =>
          LET above == 100 * drawdown_pct'.num > 5 * drawdown_pct'.den
              invoked == lv_reopt'.bandit # NoBanditCall
              replaced == strategy_instances' # strategy_instances
          IN  /\ ~above => (lv_reopt'.outcome = "none" /\ ~invoked /\ ~replaced)
              /\ above =>
                    /\ lv_reopt'.outcome \in ReoptOutcomes
                    /\ invoked <=> lv_reopt'.outcome \notin
                            {"get_enabled_strategies_raised", "get_candles_raised"}
                    /\ invoked => lv_reopt'.bandit =
                            [strategies |-> "enabled", instrument |-> lv_order'.instrument,
                             granularity |-> "H1", count |-> 2000, rounds |-> 50]
                    /\ replaced <=> lv_reopt'.outcome = "ok"
                    /\ replaced => strategy_instances' = strategy_instances + 1]_vars

\* C11 witness: a refresh found the drawdown above 5%, the optimizer ran with
\* BANDIT_ROUNDS rounds and the strategy list was reloaded.
C11_Witness ==
    /\ lv_reopt.refreshed /\ lv_reopt.outcome = "ok"
    /\ 100 * drawdown_pct.num > 5 * drawdown_pct.den
    /\ lv_reopt.bandit.rounds = BANDIT_ROUNDS
    /\ strategy_instances = 1

\* C12: when get_enabled_strategies, get_candles, run_meta_bandit or
\* load_strategies raises in a drawdown-triggered re-optimization, the
\* exception is caught, strategy_instances keeps its previous contents and
\* handle_signal goes on to pass the order for the current signal to the broker.
C12_ReoptFaultIsolated ==
    [][lv_reopt'.outcome \in (ReoptOutcomes \ {"ok"}) =>
          /\ strategy_instances' = strategy_instances
          /\ lv_event' \in {"ordered", "order_raised"}
          /\ lv_order' # NoLiveOrder
          /\ lv_order'.instrument = ACTIVE_PAIRS[pair_idx]
          /\ lv_order'.side \in {"BUY", "SELL"}]_vars

\* C12 witness: a re-optimization failed in get_candles after an earlier one
\* had reloaded the strategies; the reloaded list is kept and the order placed.
C12_Witness ==
    /\ lv_reopt.outcome = "get_candles_raised"
    /\ strategy_instances = 1
    /\ lv_event = "ordered"

\* C13 (statement of the claim, violated): each evaluation, in calibration or
\* in a round, raises the evaluated arm's pull_count by exactly 1 and its
\* cumulative_pnl by exactly the PnL its backtest returned, and leaves every
\* other arm's counters as they were.
C13_OnePullPerEvaluation ==
    last_eval # NoEval =>
        LET a == last_eval.arm
            b == last_eval.before
        IN  /\ arms[a].pull_count = b[a].pull_count + 1
            /\ arms[a].cumulative_pnl = b[a].cumulative_pnl + last_eval.pnl
            /\ \A j \in (1..Len(arms)) \ {a} : arms[j] = b[j]

\* C14 (statement of the claim, violated): the load_strategies() after a
\* bandit run returns exactly the strategies the run wrote as winners.
C14_ReloadReturnsWinners ==
    mo_pc = "reloaded" =>
        /\ "winners" \in DOMAIN live_config
        /\ loaded = live_config.winners

\* The iterations main() still has to make: the calibrations left, the rounds
\* left and the final report.
main_steps_left ==
    (IF mo_pc = "calibrate" THEN Len(arms) - cal_idx + 1 ELSE 0)
    + (rounds - round_i)
    + (IF mo_pc \in {"calibrate", "rounds"} THEN 1 ELSE 0)

C16_UcbSelection ==
    LET I == 1..Len(arms)
        unpulled == {i \in I : arms[i].pull_count = 0}
    IN  /\ mo_pc = "select" => select_strategy_ucb(arms, total_pulls) # {}
        /\ mo_pc = "selected" =>
            /\ chosen \in I
            /\ unpulled # {} =>
                /\ chosen \in unpulled
                /\ \A i \in unpulled : chosen <= i
            /\ unpulled = {} =>
                /\ \A j \in I :
                    ucb_score(arms[j], total_pulls)
                        <= ucb_score(arms[chosen], total_pulls) + ScoreTol
                /\ \A j \in I :
                    arms[j].pull_count = arms[chosen].pull_count =>
                        \/ arms[j].cumulative_pnl < arms[chosen].cumulative_pnl
                        \/ /\ arms[j].cumulative_pnl = arms[chosen].cumulative_pnl
                           /\ chosen <= j

\* C16 witness: three arms pulled twice each, the first two tied on the
\* highest cumulative PnL, and the first one returned.
C16_Witness ==
    /\ mo_pc = "selected"
    /\ Len(arms) = 3
    /\ \A i \in 1..3 : arms[i].pull_count = 2
    /\ arms[1].cumulative_pnl = 1 /\ arms[2].cumulative_pnl = 1
    /\ arms[3].cumulative_pnl = 0
    /\ chosen = 1

\* C17: with two arms, arm 1 returning +10 and arm 2 returning -5 on every
\* pull, each calibrated once, the 50 rounds that follow select arm 1
\* strictly more often than arm 2 and the promoted winner is arm 1.
C17_ConvergesToBetterArm ==
    (mo_scenario /\ mo_pc \in {"rounds", "done", "reloaded"}) =>
        /\ \A i \in 1..2 : n_calibrated[i] = 1 /\ arms[i].pull_count >= 1
        /\ round_i > 0 => n_selected[1] > n_selected[2]
        /\ mo_pc \in {"done", "reloaded"} =>
            /\ n_selected[1] + n_selected[2] = BANDIT_ROUNDS
            /\ winners = {1}
            /\ live_config = [winners |-> {1}]

\* C17 witness: the scenario run after its 50th round, winner written.
C17_Witness ==
    /\ mo_scenario
    /\ mo_pc = "done"
    /\ round_i = BANDIT_ROUNDS
    /\ n_selected[1] > n_selected[2]
    /\ winners = {1}

\* C18: an error caught by stream_bars, the k-th in a row since the last
\* yielded bar, is followed by a sleep of min(2^k, 60) seconds and a new
\* subscription attempt; a yielded bar sets retry_count to 0, so the first
\* error after a bar sleeps 2 seconds.
C18_ExponentialBackoff ==
    [][/\ st_event' \in {"failed", "timeout", "dropped"} =>
            /\ st_fails' = st_fails + 1
            /\ retry_count' = st_fails'
            /\ st_slept' = (IF st_fails' >= 6 THEN 60 ELSE 2 ^ st_fails')
            /\ st_pc' = "subscribe"
            /\ (st_event = "bar" => st_slept' = 2)
       /\ st_event' = "bar" => (retry_count' = 0 /\ st_fails' = 0)
       /\ st_event' \notin {"failed", "timeout", "dropped", "bar"} =>
            (st_fails' = st_fails /\ retry_count' = retry_count /\ st_slept' = 0)]_vars

\* C18 witness: after a yielded bar, MaxRetries errors in a row, the last one
\* followed by the capped sleep.
C18_Witness ==
    /\ st_bars # <<>>
    /\ st_event = "failed"
    /\ st_fails = MaxRetries
    /\ retry_count = MaxRetries
    /\ st_slept = MAX_BACKOFF

\* C19: across drops and reconnects no tick is in the window of two yielded
\* bars, the bars are in the order their windows closed, each bar closes on
\* the last tick of each pair in its own window, no tick of a bucket
\* abandoned by a drop is in any bar; and on every subscription, whatever
\* came before, a tick arriving once the window has run SECONDS yields a bar
\* of exactly the bucket and that tick.
C19_NoDuplicateNoReorder ==
    /\ [](/\ \A i \in 1..Len(st_bars) :
                /\ st_bars[i].window # {}
                /\ \A p \in DOMAIN st_bars[i].close : st_bars[i].close[p] \in st_bars[i].window
                /\ \A t \in st_bars[i].window : \E p \in DOMAIN st_bars[i].close :
                        t <= st_bars[i].close[p]
                /\ st_bars[i].window \cap st_dropped = {}
                /\ st_bars[i].window \cap TickIds(bucket) = {}
                /\ \A j \in 1..Len(st_bars) : i < j =>
                        \A t \in st_bars[i].window, u \in st_bars[j].window : t < u
          /\ st_pc = "subscribe" => TickIds(bucket) \subseteq st_dropped)
    /\ [][(st_ticks' = st_ticks + 1 /\ st_window >= SECONDS) =>
            /\ Len(st_bars') = Len(st_bars) + 1
            /\ st_bars'[Len(st_bars')].window = TickIds(bucket) \cup {st_ticks'}
            /\ bucket' = <<>>]_vars

\* C19 witness: a bar, then a drop that abandons a bucket holding a tick,
\* then a bar on the next subscription.
C19_Witness ==
    /\ Len(st_bars) = 2
    /\ st_bars[1].window = {1}
    /\ st_dropped = {2}
    /\ st_bars[2].window = {3, 4}
    /\ st_event = "bar"
    /\ retry_count = 0

\* C20 (statement of the claim, violated): once the feed has been silent on
\* a subscription for longer than timeout_seconds, stream_bars leaves that
\* subscription and subscribes again, whether or not a message arrives.
C20_SilentFeedResubscribes ==
    [](((st_pc = "streaming") /\ timed_out(st_idle)) => <>(st_pc = "subscribe"))

\* C21 (statement of the claim, violated): started with an empty pairs list
\* or without credentials, stream_bars lets the ValueError or RuntimeError
\* reach its caller at the first attempt; it does not count a retry and does
\* not sleep.
C21_FatalErrorFailsFast ==
    (st_setup # "ok" /\ st_event # "none") =>
        /\ st_pc = "raised"
        /\ retry_count = 0
        /\ st_slept = 0

\* C22 (statement of the claim, violated): a poll calls on_update exactly when
\* the file's parsed content differs from the content last delivered,
\* whatever the file's modification time, so after a poll of a readable file
\* the content last delivered is the file's, and no two consecutive calls
\* carry equal content.
C22_CallbackOnContentChange ==
    /\ (cm_event = "polled" /\ cm_file \in CfgContents) =>
            /\ cm_seen # <<>>
            /\ cm_seen[Len(cm_seen)] = cm_file
    /\ \A i \in 1..(Len(cm_seen) - 1) : cm_seen[i] # cm_seen[i + 1]

\* C23 (statement of the claim, violated): two runs of run_backtest from a
\* cold state, with fresh strategy instances of the same params, on the same
\* candle list give the same sequence of trades (entry index, exit index,
\* side, exit price, reason, PnL) and the same statistics.
C23_RerunIdentical ==
    rp_pc = "done" => (rp_trades[1] = rp_trades[2] /\ rp_stats[1] = rp_stats[2])

\* C29 (statement of the claim, violated): no exit of run_backtest is decided
\* on a candle whose complete flag is false.
C29_NoExitOnIncompleteBar ==
    \A r \in 1..2 : \A k \in 1..Len(rp_trades[r]) :
        rp_candles[rp_trades[r][k].exit_idx + 1].complete

\* C24 (statement of the claim, violated): handle_signal passes an order for
\* an instrument to the broker only when that instrument holds no open
\* position, so no instrument ever gets a second position on top of one.
C24_OrderOnlyWhenFlat ==
    [][(lv_event' \in {"ordered", "order_raised"} /\ lv_order' # NoLiveOrder) =>
            lv_order'.instrument \notin lv_open]_vars

\* C25 (statement of the claim, violated): at every point of the live loop
\* peak_equity is the largest account_equity held so far, so it is at least
\* account_equity, and drawdown_pct is (peak_equity - account_equity) /
\* peak_equity.
C25_PeakAndDrawdownCurrent ==
    lv_pc \in {"stream", "bar"} =>
        /\ peak_equity = max_equity
        /\ peak_equity >= account_equity
        /\ drawdown_pct.num * peak_equity = (peak_equity - account_equity) * drawdown_pct.den

\* C27 (statement of the claim, violated): the equity state is refreshed every
\* EQUITY_REFRESH_SECONDS whether or not a signal occurs, so whenever the loop
\* waits for the next bar the last refresh is no further back than that.
C27_EquityRefreshedOnInterval ==
    lv_pc = "stream" => now - last_equity_fetch <= EQUITY_REFRESH_SECONDS

\* C26 (statement of the claim, violated): before every selection of the
\* optimization loop, the total_pulls passed to select_strategy_ucb is the sum
\* of pull_count over all arms at that moment.
C26_TotalPullsIsSumOfPulls ==
    (mo_pc = "rounds" /\ round_i < rounds) => total_pulls = SumPulls(arms)

\* C28 (statement of the claim, violated): the stop-loss and take-profit
\* prices of an order are the prices given, rounded to 2 decimal places for a
\* JPY-quoted instrument (a whole pip, 10 points of 0.001) and to 5 decimal
\* places for any other (a whole point of 0.00001, which every price of the
\* model already is): place_risk_managed_order rounds as main.round_price does.
C28_RoundedToInstrumentPrecision ==
    (br_order.outcome \in {"order", "ZeroDivisionError"}) =>
        LET c  == br_call
            at == nudge_stop(c.side, c.price, c.stop_price)
        IN  IF c.instrument = "USD_JPY"
            THEN /\ br_order.stop_price = round_to_decimals(at, br_tie_up)
                 /\ c.tp.given =>
                        br_order.tp.price = round_to_decimals(c.tp.price, br_tie_up)
            ELSE /\ br_order.stop_price = at
                 /\ c.tp.given => br_order.tp.price = c.tp.price

====
